---- MODULE Spec2Model ----
(***************************************************************************)
(* Model of lifxlan3's Device (src/lifxlan3/devices/device.py): the        *)
(* request/response and fire-and-forget workflows over UDP, the response   *)
(* matcher, the ip_addr cache, the guarded power setter, the cache of      *)
(* device attributes with refresh() and the lazy product information.      *)
(*                                                                         *)
(* Each thread of Threads is one caller of the Device: it runs one         *)
(* operation at a time, step by step.  A step is the code between two      *)
(* accesses of state shared with other threads or with the network.        *)
(***************************************************************************)
EXTENDS Integers, FiniteSets, Sequences, TLC

(* ------------------------------ bounds -------------------------------- *)

\* largest max_attempts / num_repeats a caller passes explicitly
MaxAttempts == 2
\* timeout_secs, in clock ticks
TimeoutTicks == 1
\* max_attempts of the calls a second thread makes
WorkerAttempts == 1
\* the length of the mac address strings Devices are constructed with
MacLen == 2
\* the length of the longest list of expected response types
MaxTypes == 2

(* ------------------------- program constants -------------------------- *)

DEFAULT_ATTEMPTS == 4

Threads == {1, 2}

\* self.mac_addr, self.source_id: fixed at construction
MacAddr == "mac"
OtherMac == "mac_other"
BROADCAST_MAC == "00:00:00:00:00:00"
SourceId == "sid"
OtherSourceId == "sid_other"

\* a falsy ip_addr (None or the empty string)
NoIp == "none"
IpAddrs == {"ip1", "ip2"}
\* what get_broadcast_addrs may find: no interface, one, two
BroadcastAddrLists == {{}, {"bc1"}, {"bc1", "bc2"}}

RespTypes == {"Acknowledgement", "StatePower"}

\* power values: what a caller may pass, what a device may report
NonePower == "None"
PowerArgs == {"True", "0", "bogus"}
WirePowers == {"0", "1"}
Invalid == "ValueError"

(* --------------------------- the datagrams ---------------------------- *)

\* a decoded inbound datagram (unpack_lifx_message's result)
\* The payload of a datagram is read only after it has matched, so one
\* payload stands for all in the datagrams that cannot match.
MatchingShape == [source_id : {SourceId}, target_addr : {MacAddr, BROADCAST_MAC}]

Datagrams ==
    { [type |-> "StatePower", source_id |-> h.source_id, target_addr |-> h.target_addr,
       power_level |-> p] : h \in MatchingShape, p \in WirePowers }
    \cup
    [type : RespTypes, source_id : {SourceId, OtherSourceId},
     target_addr : {MacAddr, BROADCAST_MAC, OtherMac}, power_level : {"none"}]

NoDatagram ==
    [type |-> "none", source_id |-> "none", target_addr |-> "none", power_level |-> "none"]

NoMsg ==
    [type |-> "none", target |-> "none", source_id |-> "none", seq_num |-> 0,
     ack_requested |-> FALSE, response_requested |-> FALSE, power_level |-> "none"]

(* ------------------------ the cached attributes ----------------------- *)

\* A text is the sequence of its code points; None is no text at all.
NoneText == <<0 - 1>>

UNKNOWN == "UNKNOWN"

\* FirmwareInfo(): build_timestamp=-1, version=-1.0; a float is kept as the
\* number of its hundred-thousandths, so that 2.8 and 2.80 are one value
DefaultFirmwareInfo == [build_timestamp |-> 0 - 1, version |-> 0 - 100000]

\* ProductInfo(): every field UNKNOWN
DefaultProductInfo == [vendor |-> UNKNOWN, product |-> UNKNOWN, version |-> UNKNOWN]

\* the attributes Device.__init__ and Light.__init__ set to None or a default
InitCache ==
    [label |-> NoneText, location |-> NoneText, group |-> NoneText,
     host_firmware_info |-> DefaultFirmwareInfo,
     wifi_firmware_info |-> DefaultFirmwareInfo,
     product_info |-> DefaultProductInfo,
     color |-> "None"]

\* the payload of a decoded state message; a field its type lacks stays unset
NoResp ==
    [label |-> NoneText, power_level |-> "none", build |-> 0, version |-> 0,
     vendor |-> "none", product |-> "none", product_version |-> "none", color |-> "none"]

\* what a device may answer to the request of each refresh function
\* (the wire version 2 * 65536 + 80 reads 2.80, 65536 + 257 reads 1.257)
ResponsesOf(func) ==
    CASE func = "_refresh_label" -> {[NoResp EXCEPT !.label = <<76, 233>>]}
      [] func = "_refresh_location" -> {[NoResp EXCEPT !.label = <<72>>]}
      [] func = "_refresh_group" -> {[NoResp EXCEPT !.label = <<71>>]}
      [] func = "_refresh_power" -> {[NoResp EXCEPT !.power_level = p] : p \in WirePowers}
      [] func = "_refresh_host_firmware_info" ->
             {[NoResp EXCEPT !.build = 7, !.version = 2 * 65536 + 80]}
      [] func = "_refresh_wifi_firmware_info" ->
             {[NoResp EXCEPT !.build = 9, !.version = 65536 + 257]}
      [] func = "_refresh_version_info" ->
             {[NoResp EXCEPT !.vendor = "1", !.product = "27", !.product_version = "v0"]}
      [] func = "get_color" ->
             {[NoResp EXCEPT !.color = "hsbk", !.power_level = "65535", !.label = <<67>>]}
      [] OTHER -> {}

\* set_color_power's arguments before a call
NoColorPower == [color |-> "none", power |-> "none", rapid |-> FALSE]

\* the frame of the caller's refresh() or set_color_power(), the operations
\* that use the pool, when none runs; the fields after result are history:
\* the cached values at the call, and whether a function has ended before one
\* that was submitted earlier
IdleRefresh ==
    [pc |-> "idle", op |-> "none", cp |-> NoColorPower, result |-> "none",
     before |-> InitCache, before_power |-> NonePower, reordered |-> FALSE]

\* no Device has been constructed besides the one the other variables describe
NoDevices == <<>>

\* history: no _refresh_version_info has run yet
NoVersionRun == [by |-> "none", resolved |-> FALSE, sent |-> FALSE]

VARIABLES
    ip_addr,          \* self.ip_addr
    init_ip,          \* the ip_addr given at construction
    power_level,      \* self.power_level
    broadcast_addrs,  \* UDP_BROADCAST_IP_ADDRS
    calls,            \* per thread: the frame of the operation it runs
    matched_addrs,    \* history: sender addresses of the datagrams accepted so far
    last_match_addr,  \* history: sender address of the latest accepted datagram
    kind,             \* the class of the object: "Device" or "Light"
    cache,            \* self.label, .location, .group, .host_firmware_info,
                      \* .wifi_firmware_info, .product_info, .color
    futures,          \* self._wait_pool.futures: one record per submitted function
    refresh,          \* the frame of the caller's refresh()
    version_log,      \* history: the latest run of _refresh_version_info
    devices           \* two Device objects: the mac address each was
                      \* constructed with, and its self.mac_addr

vars == <<ip_addr, init_ip, power_level, broadcast_addrs, calls, matched_addrs,
          last_match_addr, kind, cache, futures, refresh, version_log, devices>>

\* history: no operation ended just before this one began
NoPrev == [op |-> "none", outcome |-> "none", power |-> "none", rapid |-> FALSE]

\* The frame of a thread that runs nothing.  The fields after outcome are
\* history: they record what the call did and are read by no action.
IdleCall ==
    [pc |-> "idle", op |-> "none", msg |-> NoMsg, response_type |-> {}, types |-> <<>>,
     max_attempts |-> 0, attempts |-> 0, sent |-> FALSE, response_seen |-> FALSE,
     timedout |-> FALSE, success |-> FALSE, elapsed |-> 0, device_response |-> NoDatagram,
     num_repeats |-> 0, sent_msg_count |-> 0, rapid |-> FALSE, power |-> "none",
     sock |-> "none", outcome |-> "none", kind |-> "none",
     arg |-> "none", old_power |-> "none", sends |-> 0, dgrams |-> 0, dests |-> {},
     msgs |-> {}, passed |-> 0, prev |-> NoPrev,
     inbox |-> FALSE, got_match |-> FALSE, ignored_sid |-> FALSE,
     match_dgram |-> NoDatagram, sends_at_match |-> 0, power_at_send |-> "none"]

Init ==
    /\ init_ip \in {NoIp, "ip1"}
    /\ ip_addr = init_ip
    /\ power_level = NonePower
    /\ broadcast_addrs \in BroadcastAddrLists
    /\ calls = [t \in Threads |-> IdleCall]
    /\ matched_addrs = {}
    /\ last_match_addr = NoIp
    /\ kind = "Device"
    /\ cache = InitCache
    /\ futures = <<>>
    /\ refresh = IdleRefresh
    /\ version_log = NoVersionRun
    /\ devices = NoDevices

(* --------------------------- mac addresses ---------------------------- *)

\* the characters of the mac address strings
Chars == {"a", "A", "F", ":"}

\* the strings a Device may be constructed with
MacArgs == [1..MacLen -> Chars]

\* str.lower() on one character
LowerChar(ch) ==
    CASE ch = "A" -> "a"
      [] ch = "F" -> "f"
      [] OTHER -> ch

\* str.lower()
Lower(str) == [i \in DOMAIN str |-> LowerChar(str[i])]

\* the code point of a character
Code(ch) ==
    CASE ch = "a" -> 97
      [] ch = "A" -> 65
      [] ch = "f" -> 102
      [] ch = "F" -> 70
      [] OTHER -> 58

RECURSIVE CodeSum(_)
CodeSum(str) ==
    IF str = <<>> THEN 0 ELSE Code(Head(str)) + CodeSum(Tail(str))

\* hash() of a string: a number computed from its characters, the same for
\* equal strings and for some unequal ones
Hash(str) == CodeSum(str)

NewDeviceKeepsCase(mac_addr) == [given |-> mac_addr, mac_addr |-> mac_addr]

\* Device.__init__: `self.mac_addr = mac_addr.lower()`
NewDevice(mac_addr) == [given |-> mac_addr, mac_addr |-> Lower(mac_addr)]

\* Device.__hash__
DeviceHash(d) == Hash(d.mac_addr)

\* Device.__eq__
DeviceEq(d, other) == d.mac_addr = other.mac_addr

(* ------------------------------ helpers ------------------------------- *)

\* PowerSettings.validate: the canonical value of an on/off synonym
Validate(v) ==
    CASE v \in {"True", "1", "on", "65535"} -> "65535"
      [] v \in {"False", "0", "off"} -> "0"
      [] OTHER -> Invalid

\* msg_type(self.mac_addr, self.source_id, seq_num=0, payload=..., ack_requested=...,
\* response_requested=...)
BuildMsg(msg_type, payload_power, ack_requested, response_requested) ==
    [type |-> msg_type, target |-> MacAddr, source_id |-> SourceId, seq_num |-> 0,
     ack_requested |-> ack_requested, response_requested |-> response_requested,
     power_level |-> payload_power]

\* the members of a list
Members(list) == {list[i] : i \in DOMAIN list}

AckRequestedAnyLength(response_type) == "Acknowledgement" \in Members(response_type)

\* `len(response_type) == 1 and Acknowledgement in response_type`, of the
\* list response_type
AckRequested(response_type) ==
    Len(response_type) = 1 /\ "Acknowledgement" \in Members(response_type)

IpKnownAlwaysBroadcast(ip) == FALSE

\* `if self.ip_addr:`
IpKnown(ip) == ip # NoIp

MatchesNoSourceId(c, d) ==
    /\ d.type \in c.response_type
    /\ (d.target_addr = MacAddr \/ d.target_addr = BROADCAST_MAC)

MatchesNoTarget(c, d) ==
    /\ d.type \in c.response_type
    /\ d.source_id = SourceId

\* the response matcher of req_with_resp
Matches(c, d) ==
    /\ d.type \in c.response_type
    /\ d.source_id = SourceId
    /\ (d.target_addr = MacAddr \/ d.target_addr = BROADCAST_MAC)

OnMatchKeepsPolling(c, d) ==
    [c EXCEPT !.device_response = d, !.success = TRUE]

\* the body of the match branch, but for the write of self.ip_addr
OnMatch(c, d) ==
    [c EXCEPT !.response_seen = TRUE, !.device_response = d, !.success = TRUE]

IpAfterRecvAnySender(c, d, from, ip) == from

\* self.ip_addr after a datagram d from address `from` has been handled
IpAfterRecv(c, d, from, ip) == IF Matches(c, d) THEN from ELSE ip

OuterLoopContinuesOneMore(c) == ~c.response_seen /\ c.attempts <= c.max_attempts

\* `while not response_seen and attempts < max_attempts`
OuterLoopContinues(c) == ~c.response_seen /\ c.attempts < c.max_attempts

\* leaving the `with init_socket(...)` block: NoResponse, or the response
\* (the locals of the call end with it)
ReqExit(c) ==
    LET gone == [c EXCEPT !.sock = "closed", !.attempts = 0, !.sent = FALSE,
                          !.response_seen = FALSE, !.timedout = FALSE, !.elapsed = 0,
                          !.success = FALSE]
    IN
    IF ~c.success
    THEN [gone EXCEPT !.pc = "finished", !.outcome = "NoResponse"]
    ELSE [gone EXCEPT !.pc = IF c.op = "refresh_power" THEN "cont" ELSE "finished",
                      !.outcome = "returned"]

\* the head of the outer loop: start the next attempt, or leave
OuterLoop(c) ==
    IF OuterLoopContinues(c)
    THEN [c EXCEPT !.pc = "send", !.sent = FALSE, !.elapsed = 0, !.timedout = FALSE]
    ELSE ReqExit(c)

InnerLoopSendsAgain(c) ==
    IF ~c.response_seen /\ ~c.timedout
    THEN [c EXCEPT !.pc = "send", !.sent = FALSE]
    ELSE OuterLoop([c EXCEPT !.attempts = c.attempts + 1])

\* the head of the inner loop, after a receive: poll again, or end the attempt
InnerLoop(c) ==
    IF ~c.response_seen /\ ~c.timedout
    THEN [c EXCEPT !.pc = "recv"]
    ELSE OuterLoop([c EXCEPT !.attempts = c.attempts + 1])

\* req_with_resp up to the first test of the outer loop
ReqStart(c, msg_type, response_type, payload_power, max_attempts) ==
    LET ack_requested == AckRequested(response_type) IN
    OuterLoop([c EXCEPT !.sock = "open", !.kind = "req",
                        !.msg = BuildMsg(msg_type, payload_power, ack_requested, ~ack_requested),
                        !.response_type = Members(response_type),
                        !.types = response_type,
                        !.max_attempts = max_attempts,
                        !.response_seen = FALSE, !.attempts = 0, !.success = FALSE,
                        !.device_response = NoDatagram])

FFLoopContinuesOneMore(c) == c.sent_msg_count <= c.num_repeats

\* `while sent_msg_count < num_repeats`
FFLoopContinues(c) == c.sent_msg_count < c.num_repeats

\* the head of fire_and_forget's loop: send again, or leave the with block
FFLoop(c) ==
    IF FFLoopContinues(c)
    THEN [c EXCEPT !.pc = "ff_send"]
    ELSE [c EXCEPT !.pc = "finished", !.sock = "closed", !.outcome = "returned",
                   !.sent_msg_count = 0]

\* fire_and_forget up to the first test of its loop
FFStart(c, msg_type, payload_power, num_repeats) ==
    FFLoop([c EXCEPT !.sock = "open", !.kind = "ff",
                     !.msg = BuildMsg(msg_type, payload_power, FALSE, FALSE),
                     !.num_repeats = num_repeats, !.sent_msg_count = 0])

SentMessageNumbered(c) == [c.msg EXCEPT !.seq_num = c.sends]

\* the message of `sock.sendto(msg.packed_message, ...)`: the one built
\* before the loop
SentMessage(c) == c.msg

\* history: c after a send step to the addresses dests
Emitted(c, dests, power) ==
    [c EXCEPT !.sends = c.sends + 1, !.dgrams = c.dgrams + Cardinality(dests),
              !.dests = dests, !.power_at_send = power,
              !.msgs = c.msgs \cup {SentMessage(c)}]

Untouched ==
    UNCHANGED <<init_ip, broadcast_addrs, kind, cache, futures, refresh, version_log, devices>>

\* The match predicate as the specification words it (4.2 step 3); the
\* history fields got_match and ignored_sid are kept with it, not with Matches.
SpecMatch(response_type, d) ==
    /\ d.type \in response_type
    /\ d.source_id = SourceId
    /\ d.target_addr \in {MacAddr, BROADCAST_MAC}

\* history: c after datagram d was handed to it by recvfrom
Received(c, d) ==
    LET first == SpecMatch(c.response_type, d) /\ ~c.got_match IN
    [c EXCEPT !.dests = {},
              !.got_match = c.got_match \/ SpecMatch(c.response_type, d),
              !.match_dgram = IF first THEN d ELSE c.match_dgram,
              !.sends_at_match = IF first THEN c.sends ELSE c.sends_at_match,
              !.ignored_sid = c.ignored_sid \/
                  (/\ d.type \in c.response_type
                   /\ d.target_addr \in {MacAddr, BROADCAST_MAC}
                   /\ d.source_id # SourceId)]

\* a frame for a new operation
NewCall(op) == [IdleCall EXCEPT !.pc = "start", !.op = op]

(* ------------------------- req_with_resp ------------------------------ *)

\* a caller's own req_with_resp(GetPower, StatePower, max_attempts=n)
CallReqWithResp(t, n) ==
    /\ calls[t].pc = "idle"
    /\ calls' = [calls EXCEPT ![t] =
                    ReqStart(NewCall("req_with_resp"), "GetPower", <<"StatePower">>, "none", n)]
    /\ UNCHANGED <<ip_addr, power_level, matched_addrs, last_match_addr>>
    /\ Untouched

\* the send of an attempt: reads self.ip_addr; unicast at once when it is set
ReqSend(t) ==
    LET c == calls[t] IN
    /\ c.pc = "send"
    /\ ~c.sent
    /\ IF IpKnown(ip_addr)
       THEN calls' = [calls EXCEPT ![t] =
                         [Emitted(c, {ip_addr}, power_level) EXCEPT !.sent = TRUE, !.pc = "recv"]]
       ELSE calls' = [calls EXCEPT ![t] = [c EXCEPT !.pc = "bcast"]]
    /\ UNCHANGED <<ip_addr, power_level, matched_addrs, last_match_addr>>
    /\ Untouched

\* `for ip_addr in UDP_BROADCAST_IP_ADDRS: sock.sendto(...)`
ReqBroadcast(t) ==
    LET c == calls[t] IN
    /\ c.pc = "bcast"
    /\ calls' = [calls EXCEPT ![t] =
                    [Emitted(c, broadcast_addrs, power_level) EXCEPT !.sent = TRUE, !.pc = "recv"]]
    /\ UNCHANGED <<ip_addr, power_level, matched_addrs, last_match_addr>>
    /\ Untouched

ElapsedTimeSinceReceive(c, e) == e - c.elapsed

\* `elapsed_time = time() - start_time` when e ticks have passed since the
\* attempt set start_time
ElapsedTime(c, e) == e

\* `timedout = True if elapsed_time > timeout_secs else False`
Clocked(c, e) ==
    [c EXCEPT !.elapsed = ElapsedTime(c, e), !.timedout = (ElapsedTime(c, e) > TimeoutTicks)]

\* recvfrom hands over datagram d, sent from address `from`, when e ticks of
\* the attempt have passed
ReqRecvDatagram(t, d, from, e) ==
    LET c == calls[t]
        seen == IF Matches(c, d) THEN OnMatch(c, d) ELSE c
        timed == Clocked(seen, e)
    IN
    /\ c.pc = "recv"
    /\ e >= c.elapsed
    /\ e - c.elapsed <= TimeoutTicks
    /\ ip_addr' = IpAfterRecv(c, d, from, ip_addr)
    /\ calls' = [calls EXCEPT ![t] = InnerLoop(Received(timed, d))]
    /\ matched_addrs' = IF SpecMatch(c.response_type, d) THEN matched_addrs \cup {from}
                        ELSE matched_addrs
    /\ last_match_addr' = IF SpecMatch(c.response_type, d) THEN from ELSE last_match_addr
    /\ UNCHANGED power_level
    /\ Untouched

\* recvfrom raises socket.timeout after blocking for timeout_secs; the last
\* tick stands for every time beyond the timeout
ReqRecvTimeout(t, e) ==
    LET c == calls[t] IN
    /\ c.pc = "recv"
    /\ (e >= c.elapsed + TimeoutTicks) = TRUE \/ (c.elapsed > 0 /\ e = TimeoutTicks + 1)
    /\ calls' = [calls EXCEPT ![t] = InnerLoop([Clocked(c, e) EXCEPT !.dests = {}])]
    /\ UNCHANGED <<ip_addr, power_level, matched_addrs, last_match_addr>>
    /\ Untouched

(* ------------------------- fire_and_forget ---------------------------- *)

\* a caller's own fire_and_forget(msg_type, payload, num_repeats=n)
CallFireAndForget(t, n) ==
    /\ calls[t].pc = "idle"
    /\ calls' = [calls EXCEPT ![t] = FFStart(NewCall("fire_and_forget"), "SetLabel", "none", n)]
    /\ UNCHANGED <<ip_addr, power_level, matched_addrs, last_match_addr>>
    /\ Untouched

\* one pass of the loop: reads self.ip_addr; unicast at once when it is set
FFSend(t) ==
    LET c == calls[t] IN
    /\ c.pc = "ff_send"
    /\ IF IpKnown(ip_addr)
       THEN calls' = [calls EXCEPT ![t] =
                FFLoop([Emitted(c, {ip_addr}, power_level)
                            EXCEPT !.sent_msg_count = c.sent_msg_count + 1])]
       ELSE calls' = [calls EXCEPT ![t] = [c EXCEPT !.pc = "ff_bcast"]]
    /\ UNCHANGED <<ip_addr, power_level, matched_addrs, last_match_addr>>
    /\ Untouched

FFBroadcast(t) ==
    LET c == calls[t] IN
    /\ c.pc = "ff_bcast"
    /\ calls' = [calls EXCEPT ![t] =
            FFLoop([Emitted(c, broadcast_addrs, power_level)
                        EXCEPT !.sent_msg_count = c.sent_msg_count + 1])]
    /\ UNCHANGED <<ip_addr, power_level, matched_addrs, last_match_addr>>
    /\ Untouched

\* a datagram reaches the socket of a running fire_and_forget; nothing reads it
FFArrive(t) ==
    LET c == calls[t] IN
    /\ c.pc \in {"ff_send", "ff_bcast"}
    /\ ~c.inbox
    /\ calls' = [calls EXCEPT ![t] = [c EXCEPT !.inbox = TRUE]]
    /\ UNCHANGED <<ip_addr, power_level, matched_addrs, last_match_addr>>
    /\ Untouched

(* --------------------------- power setter ----------------------------- *)

SetPowerGuardNeverSkips(power_arg, cached) ==
    IF Validate(power_arg) = Invalid \/ Validate(cached) = Invalid THEN "ValueError"
    ELSE "send"

SetPowerGuardNoValidation(power_arg, cached) ==
    IF Validate(cached) = Invalid THEN "ValueError"
    ELSE IF Validate(cached) = Validate(power_arg) THEN "skip"
    ELSE "send"

\* _set_power down to `if ps is power: return`: both values are validated,
\* the argument first, then compared
SetPowerGuard(power_arg, cached) ==
    IF Validate(power_arg) = Invalid THEN "ValueError"
    ELSE IF Validate(cached) = Invalid THEN "ValueError"
    ELSE IF Validate(cached) = Validate(power_arg) THEN "skip"
    ELSE "send"

\* the message type of set_power: SetPower, or LightSetPower on a Light
SetPowerType(k) == IF k = "Light" THEN "LightSetPower" ELSE "SetPower"

PowerLevelAfterSetNoWrite(cached, power) == cached

\* `self.power_level = power`
PowerLevelAfterSet(cached, power) == power

\* the default of _send_set_message's max_attempts
SetMessageAttempts == 1

SendSetMessagePassesAttempts(c, msg_type, payload_power, max_attempts, rapid) ==
    IF rapid
    THEN FFStart(c, msg_type, payload_power, max_attempts)
    ELSE ReqStart(c, msg_type, <<"Acknowledgement">>, payload_power, max_attempts)

\* _send_set_message: fire_and_forget(num_repeats=max_attempts) when rapid,
\* else req_with_ack(msg_type, payload, timeout_secs) with its default
\* max_attempts
SendSetMessage(c, msg_type, payload_power, max_attempts, rapid) ==
    IF rapid
    THEN FFStart(c, msg_type, payload_power, max_attempts)
    ELSE ReqStart(c, msg_type, <<"Acknowledgement">>, payload_power, DEFAULT_ATTEMPTS)

\* set_power(power, rapid) down to the guard
CallSetPower(t, power_arg, rapid) ==
    LET guard == SetPowerGuard(power_arg, power_level)
        c == [NewCall("set_power") EXCEPT !.arg = power_arg, !.rapid = rapid,
                                          !.old_power = power_level]
    IN
    /\ calls[t].pc = "idle"
    /\ calls' = [calls EXCEPT ![t] =
           CASE guard = "ValueError" -> [c EXCEPT !.pc = "finished", !.outcome = "ValueError"]
             [] guard = "skip" -> [c EXCEPT !.pc = "finished", !.outcome = "returned"]
             [] OTHER -> [c EXCEPT !.pc = "set_write", !.power = Validate(power_arg)]]
    /\ UNCHANGED <<ip_addr, power_level, matched_addrs, last_match_addr>>
    /\ Untouched

\* the write of the cache, then _send_set_message up to its first send
SetPowerWrite(t) ==
    LET c == calls[t]
        new_level == PowerLevelAfterSet(power_level, c.power)
    IN
    /\ c.pc = "set_write"
    /\ power_level' = new_level
    /\ calls' = [calls EXCEPT ![t] = SendSetMessage(c, SetPowerType(kind), new_level, SetMessageAttempts, c.rapid)]
    /\ UNCHANGED <<ip_addr, matched_addrs, last_match_addr>>
    /\ Untouched

(* --------------------------- _refresh_power --------------------------- *)

CallRefreshPower(t) ==
    /\ calls[t].pc = "idle"
    /\ calls' = [calls EXCEPT ![t] =
            ReqStart(NewCall("refresh_power"), "GetPower", <<"StatePower">>, "none",
                     DEFAULT_ATTEMPTS)]
    /\ UNCHANGED <<ip_addr, power_level, matched_addrs, last_match_addr>>
    /\ Untouched

\* `self.power_level = response.power_level`
RefreshPowerStore(t) ==
    LET c == calls[t] IN
    /\ c.pc = "cont"
    /\ power_level' = c.device_response.power_level
    /\ calls' = [calls EXCEPT ![t] = [c EXCEPT !.pc = "finished"]]
    /\ UNCHANGED <<ip_addr, matched_addrs, last_match_addr>>
    /\ Untouched

\* the operation has returned or raised; the caller goes on
Finish(t) ==
    /\ calls[t].pc = "finished"
    /\ calls' = [calls EXCEPT ![t] = IdleCall]
    /\ UNCHANGED <<ip_addr, power_level, matched_addrs, last_match_addr>>
    /\ Untouched

(* ------------------------------ refresh ------------------------------- *)
(* In this part a req_with_resp call of a refresh function is one step     *)
(* with its outcome, a matching response or NoResponse; its sends and      *)
(* receives are the subject of the part above.                             *)

\* Device._refresh_funcs, and Light._refresh_funcs: the same plus get_color
RefreshFuncs(k) ==
    LET device == <<"_refresh_label", "_refresh_location", "_refresh_group",
                    "_refresh_power", "_refresh_host_firmware_info",
                    "_refresh_wifi_firmware_info", "_refresh_version_info">>
    IN IF k = "Light" THEN Append(device, "get_color") ELSE device

PoolCapacityOfDevice(k) == IF k = "Light" THEN 12 ELSE 12

\* WaitPool(12) in Device.__init__, WaitPool(ThreadPoolExecutor(2)) in Light.__init__
PoolCapacity(k) == IF k = "Light" THEN 2 ELSE 12

\* str.encode('utf-8'): one byte below 128, two bytes below 2048
RECURSIVE Utf8Encode(_)
Utf8Encode(text) ==
    IF text = <<>> THEN <<>>
    ELSE (IF Head(text) < 128 THEN <<Head(text)>>
          ELSE <<192 + (Head(text) \div 64), 128 + (Head(text) % 64)>>)
         \o Utf8Encode(Tail(text))

\* bytes.decode('utf-8')
RECURSIVE Utf8Decode(_)
Utf8Decode(bytes) ==
    IF bytes = <<>> THEN <<>>
    ELSE IF Head(bytes) < 128 THEN <<Head(bytes)>> \o Utf8Decode(Tail(bytes))
    ELSE <<(Head(bytes) - 192) * 64 + (bytes[2] - 128)>> \o Utf8Decode(Tail(Tail(bytes)))

\* `x = response.label.encode('utf-8')`, then `x = x.decode('utf-8')`
TextOf(label) == Utf8Decode(Utf8Encode(label))

\* the value of float("0." + str(n)) for n < 65536, in hundred-thousandths
Fraction(n) ==
    CASE n < 10 -> n * 10000
      [] n >= 10 /\ n < 100 -> n * 1000
      [] n >= 100 /\ n < 1000 -> n * 100
      [] n >= 1000 /\ n < 10000 -> n * 10
      [] OTHER -> n

\* float(str(str(version >> 16) + "." + str(version & 0xff)))
FirmwareVersion(version) == (version \div 65536) * 100000 + Fraction(version % 256)

FirmwareInfo(build, version) == [build_timestamp |-> build, version |-> version]

ProductInfo(vendor, product, version) ==
    [vendor |-> vendor, product |-> product, version |-> version]

\* `self.product is None or UNKNOWN in self.product_info`
Unresolved(product_info) ==
    \/ product_info.product = "None"
    \/ UNKNOWN \in {product_info.vendor, product_info.product, product_info.version}

NeedsVersionInfoAlways(only_if_needed, product_info) == TRUE

NeedsVersionInfoNever(only_if_needed, product_info) == ~only_if_needed

\* the condition of _refresh_version_info
NeedsVersionInfo(only_if_needed, product_info) ==
    ~only_if_needed \/ Unresolved(product_info)

CacheAfterLocationIntoLabel(func, state, c, r) ==
    CASE func = "_refresh_label" -> [c EXCEPT !.label = TextOf(r.label)]
      [] func = "_refresh_location" -> [c EXCEPT !.label = TextOf(r.label)]
      [] func = "_refresh_group" -> [c EXCEPT !.group = TextOf(r.label)]
      [] func = "_refresh_host_firmware_info" ->
             [c EXCEPT !.host_firmware_info =
                           FirmwareInfo(r.build, FirmwareVersion(r.version))]
      [] func = "_refresh_wifi_firmware_info" ->
             [c EXCEPT !.wifi_firmware_info =
                           FirmwareInfo(r.build, FirmwareVersion(r.version))]
      [] func = "_refresh_version_info" ->
             [c EXCEPT !.product_info = ProductInfo(r.vendor, r.product, r.product_version)]
      [] func = "get_color" /\ state = "store" -> [c EXCEPT !.color = r.color]
      [] func = "get_color" /\ state = "store_label" -> [c EXCEPT !.label = r.label]
      [] OTHER -> c

\* the cache after the write that function func makes in state `state`, its
\* response being r
CacheAfter(func, state, c, r) ==
    CASE func = "_refresh_label" -> [c EXCEPT !.label = TextOf(r.label)]
      [] func = "_refresh_location" -> [c EXCEPT !.location = TextOf(r.label)]
      [] func = "_refresh_group" -> [c EXCEPT !.group = TextOf(r.label)]
      [] func = "_refresh_host_firmware_info" ->
             [c EXCEPT !.host_firmware_info =
                           FirmwareInfo(r.build, FirmwareVersion(r.version))]
      [] func = "_refresh_wifi_firmware_info" ->
             [c EXCEPT !.wifi_firmware_info =
                           FirmwareInfo(r.build, FirmwareVersion(r.version))]
      [] func = "_refresh_version_info" ->
             [c EXCEPT !.product_info = ProductInfo(r.vendor, r.product, r.product_version)]
      [] func = "get_color" /\ state = "store" -> [c EXCEPT !.color = r.color]
      [] func = "get_color" /\ state = "store_label" -> [c EXCEPT !.label = r.label]
      [] OTHER -> c

\* self.power_level after that write
PowerAfter(func, state, p, r) ==
    IF \/ func = "_refresh_power"
       \/ func = "get_color" /\ state = "store_power"
    THEN r.power_level
    ELSE p

\* where a function stands after that write: get_color writes color, then
\* power_level, then label
AfterStore(func, state) ==
    CASE func = "get_color" /\ state = "store" -> "store_power"
      [] func = "get_color" /\ state = "store_power" -> "store_label"
      [] OTHER -> "done"

StoreStates == {"store_power", "store_label"}

\* the functions of the pool that a worker is executing
Executing(fs) == {i \in DOMAIN fs : fs[i].state \in {"running"} \cup StoreStates}

\* a function has ended: returned, or raised NoResponse or a validation error
Finished(f) == f.state \in {"done", "failed", "raised"}

AllFinishedNoWait(fs) == TRUE

\* leaving `with self._wait_pool as wp`: every submitted function has ended
AllFinished(fs) == \A i \in DOMAIN fs : Finished(fs[i])

\* `exhaust(f.result() for f in wp.futures)` can run to its end or to the
\* first NoResponse: result() blocks while its function has not ended
ResultsReadable(fs) ==
    \A i \in DOMAIN fs :
        Finished(fs[i]) \/ \E j \in 1..(i - 1) : fs[j].state = "failed"

RefreshResultAlwaysTrue(fs) == "True"

\* True when no result() raised NoResponse, which is suppressed, else False
RefreshResult(fs) ==
    IF \A i \in DOMAIN fs : fs[i].state # "failed" THEN "True" ELSE "False"

\* what no step of this part changes
Unrefreshed ==
    UNCHANGED <<init_ip, broadcast_addrs, calls, matched_addrs, last_match_addr, kind, devices>>

\* `cp.power and cp.color`, `cp.power`: None, 0 and False count as false
Truthy(v) == v \notin {"None", "0", "False"}

SetColorPowerFuncsAlwaysColor(cp) == <<"set_color", "set_power">>

\* the functions set_color_power submits
SetColorPowerFuncs(cp) ==
    IF Truthy(cp.power) /\ Truthy(cp.color) THEN <<"set_color", "set_power">>
    ELSE <<"set_power">>

\* the functions the operation of frame r submits, in their order
PoolFuncs(r, k) ==
    IF r.op = "set_color_power" THEN SetColorPowerFuncs(r.cp) ELSE RefreshFuncs(k)

\* refresh() enters `with self._wait_pool as wp`; the caller's run makes one
\* refresh()
CallRefresh ==
    /\ refresh.pc = "idle"
    /\ refresh' = [refresh EXCEPT !.pc = "submit", !.op = "refresh", !.before = cache,
                                  !.before_power = power_level]
    /\ futures' = <<>>
    /\ UNCHANGED <<ip_addr, power_level, cache, version_log>>
    /\ Unrefreshed

\* a worker begins function func: it runs up to its request, and
\* _refresh_version_info(only_if_needed=False) tests its condition first
Begun(func, product_info) ==
    IF func = "_refresh_version_info" /\ ~NeedsVersionInfo(FALSE, product_info)
    THEN "done"
    ELSE "running"

\* history: the log after a worker has begun function func
LogAfterBegin(func, log, product_info) ==
    IF func = "_refresh_version_info"
    THEN [by |-> "refresh", resolved |-> ~Unresolved(product_info),
          sent |-> NeedsVersionInfo(FALSE, product_info)]
    ELSE log

\* one wp.submit of `exhaust(map(wp.submit, self._refresh_funcs))`, or of
\* set_color_power: a free
\* worker begins the function at once, else it waits in the pool's queue;
\* after the last submit the caller leaves the with block and waits there
RefreshSubmit ==
    LET funcs == PoolFuncs(refresh, kind)
        n == Len(futures) + 1
        free == /\ Cardinality(Executing(futures)) < PoolCapacity(kind)
                /\ \A j \in DOMAIN futures : futures[j].state # "queued"
    IN
    /\ refresh.pc = "submit"
    /\ n <= Len(funcs)
    /\ futures' = Append(futures,
                         [func |-> funcs[n],
                          state |-> IF free THEN Begun(funcs[n], cache.product_info)
                                    ELSE "queued",
                          response |-> NoResp])
    /\ version_log' = IF free THEN LogAfterBegin(funcs[n], version_log, cache.product_info)
                      ELSE version_log
    /\ refresh' = [refresh EXCEPT !.pc = IF n = Len(funcs) THEN "wait" ELSE "submit"]
    /\ UNCHANGED <<ip_addr, power_level, cache>>
    /\ Unrefreshed

\* a worker that has become free begins the function that waits longest
TaskStart(i) ==
    LET f == futures[i] IN
    /\ i \in DOMAIN futures
    /\ f.state = "queued"
    /\ \A j \in 1..(i - 1) : futures[j].state # "queued"
    /\ Cardinality(Executing(futures)) < PoolCapacity(kind)
    /\ futures' = [futures EXCEPT ![i].state = Begun(f.func, cache.product_info)]
    /\ version_log' = LogAfterBegin(f.func, version_log, cache.product_info)
    /\ UNCHANGED <<ip_addr, power_level, cache, refresh>>
    /\ Unrefreshed

\* history: the frame of refresh() after function i has got to state `state`
Overtaken(i, state) ==
    [refresh EXCEPT !.reordered =
        refresh.reordered \/ (/\ state \in {"done", "failed"}
                              /\ \E j \in 1..(i - 1) : ~Finished(futures[j]))]

\* the req_with_resp of function i returns the matching response r, which
\* came from address `from`, and the function makes its first write
TaskResponse(i, r, from) ==
    LET f == futures[i] IN
    /\ i \in DOMAIN futures
    /\ f.state = "running"
    /\ r \in ResponsesOf(f.func)
    /\ ip_addr' = from
    /\ cache' = CacheAfter(f.func, "store", cache, r)
    /\ power_level' = PowerAfter(f.func, "store", power_level, r)
    /\ futures' = [futures EXCEPT ![i].state = AfterStore(f.func, "store"),
                                  ![i].response = r]
    /\ refresh' = Overtaken(i, AfterStore(f.func, "store"))
    /\ UNCHANGED version_log
    /\ Unrefreshed

\* the req_with_resp of function i raises NoResponse, which ends the
\* function; a rapid set function makes no req_with_resp
TaskNoResponse(i) ==
    /\ i \in DOMAIN futures
    /\ futures[i].state = "running"
    /\ futures[i].func \in {"set_color", "set_power"} => ~refresh.cp.rapid
    /\ futures' = [futures EXCEPT ![i].state = "failed"]
    /\ refresh' = Overtaken(i, "failed")
    /\ UNCHANGED <<ip_addr, power_level, cache, version_log>>
    /\ Unrefreshed

\* function i makes its next write from its response
TaskStore(i) ==
    LET f == futures[i] IN
    /\ i \in DOMAIN futures
    /\ f.state \in StoreStates
    /\ cache' = CacheAfter(f.func, f.state, cache, f.response)
    /\ power_level' = PowerAfter(f.func, f.state, power_level, f.response)
    /\ futures' = [futures EXCEPT ![i].state = AfterStore(f.func, f.state)]
    /\ refresh' = Overtaken(i, AfterStore(f.func, f.state))
    /\ UNCHANGED <<ip_addr, version_log>>
    /\ Unrefreshed

\* the with block is left
RefreshJoin ==
    /\ refresh.pc = "wait"
    /\ AllFinished(futures)
    /\ refresh' = [refresh EXCEPT !.pc = "results"]
    /\ UNCHANGED <<ip_addr, power_level, cache, futures, version_log>>
    /\ Unrefreshed

\* `with suppress(NoResponse): exhaust(...); return True`, else `return False`
RefreshReturn ==
    /\ refresh.pc = "results"
    /\ refresh.op = "refresh"
    /\ ResultsReadable(futures) = TRUE
    /\ refresh' = [refresh EXCEPT !.pc = "returned", !.result = RefreshResult(futures)]
    /\ UNCHANGED <<ip_addr, power_level, cache, futures, version_log>>
    /\ Unrefreshed

(* -------------------------- set_color_power --------------------------- *)
(* As in refresh, the send of a set function is one step with its outcome. *)

\* what a caller passes as cp
ColorPowers == [color : {"hsbk", "None"}, power : {"True", "0"}, rapid : BOOLEAN]

\* Light.set_color_power(cp, rapid=...) enters `with self._wait_pool as wp`
CallSetColorPower(cp) ==
    /\ kind = "Light"
    /\ refresh.pc \in {"idle", "returned"}
    /\ refresh' = [refresh EXCEPT !.pc = "submit", !.op = "set_color_power", !.cp = cp,
                                  !.result = "none", !.before = cache,
                                  !.before_power = power_level, !.reordered = FALSE]
    /\ futures' = <<>>
    /\ UNCHANGED <<ip_addr, power_level, cache, version_log>>
    /\ Unrefreshed

\* set_color in the pool: _send_set_message(LightSetColor, ...); acknowledged
\* from address `from` when it is not rapid
TaskSetColor(i, from) ==
    /\ i \in DOMAIN futures
    /\ futures[i].func = "set_color"
    /\ futures[i].state = "running"
    /\ futures' = [futures EXCEPT ![i].state = "done"]
    /\ ip_addr' = IF refresh.cp.rapid THEN ip_addr ELSE from
    /\ refresh' = Overtaken(i, "done")
    /\ UNCHANGED <<power_level, cache, version_log>>
    /\ Unrefreshed

\* set_power in the pool: _set_power's guard, its write and its send
TaskSetPower(i, from) ==
    LET guard == SetPowerGuard(refresh.cp.power, power_level)
        state == IF guard = "ValueError" THEN "raised" ELSE "done"
    IN
    /\ i \in DOMAIN futures
    /\ futures[i].func = "set_power"
    /\ futures[i].state = "running"
    /\ futures' = [futures EXCEPT ![i].state = state]
    /\ power_level' = IF guard = "send"
                      THEN PowerLevelAfterSet(power_level, Validate(refresh.cp.power))
                      ELSE power_level
    /\ ip_addr' = IF guard = "send" /\ ~refresh.cp.rapid THEN from ELSE ip_addr
    /\ refresh' = Overtaken(i, state)
    /\ UNCHANGED <<cache, version_log>>
    /\ Unrefreshed

\* set_color_power returns when its with block is left; it reads no result
SetColorPowerReturn ==
    /\ refresh.pc = "results"
    /\ refresh.op = "set_color_power"
    /\ refresh' = [refresh EXCEPT !.pc = "returned", !.result = "None"]
    /\ UNCHANGED <<ip_addr, power_level, cache, futures, version_log>>
    /\ Unrefreshed

(* ----------------------- lazy product information --------------------- *)

\* the readers of the product: the descriptor of the five feature flags
\* (supports_color, ..., supports_chain), and is_light
ProductReaders == {"SupportsDesc", "is_light"}

\* SupportsDesc.__get__ and is_light: _refresh_version_info(only_if_needed=True)
\* with the outcome of its request, a matching response or NoResponse, then
\* the read of the cached product
ReadProductInfo(by, answered, from) ==
    LET needed == NeedsVersionInfo(TRUE, cache.product_info) IN
    /\ refresh.pc \in {"idle", "returned"}
    /\ version_log' = [by |-> by, resolved |-> ~Unresolved(cache.product_info),
                       sent |-> needed]
    /\ IF needed /\ answered
       THEN /\ \E r \in ResponsesOf("_refresh_version_info") :
                   cache' = CacheAfter("_refresh_version_info", "store", cache, r)
            /\ ip_addr' = from
       ELSE UNCHANGED <<cache, ip_addr>>
    /\ UNCHANGED <<power_level, futures, refresh>>
    /\ Unrefreshed

\* label[:32]
First32(label) == SubSeq(label, 1, IF Len(label) < 32 THEN Len(label) ELSE 32)

\* the label a caller sets: one of 33 characters
LabelArgs == {[i \in 1..33 |-> 79]}

\* the address the device answers from in the part below
Responders == {"ip1"}

\* set_label with the outcome of its non-rapid send, acknowledged or NoResponse
SetLabel(label, acked, from) ==
    /\ refresh.pc \in {"idle", "returned"}
    /\ cache' = [cache EXCEPT !.label = First32(label)]
    /\ ip_addr' = IF acked THEN from ELSE ip_addr
    /\ UNCHANGED <<power_level, futures, refresh, version_log>>
    /\ Unrefreshed

(* --------------------------- specifications --------------------------- *)

Ticks == 0..(TimeoutTicks + 1)

\* the steps inside a request/response call
ReqStep(t) ==
    \/ ReqSend(t)
    \/ ReqBroadcast(t)
    \/ \E d \in Datagrams, from \in IpAddrs, e \in Ticks : ReqRecvDatagram(t, d, from, e)
    \/ \E e \in Ticks : ReqRecvTimeout(t, e)
    \/ Finish(t)

\* the steps inside a fire_and_forget
FFStep(t) ==
    \/ FFSend(t)
    \/ FFBroadcast(t)
    \/ FFArrive(t)

\* every step of one caller
Step(t) ==
    \/ \E n \in 0..MaxAttempts : CallReqWithResp(t, n)
    \/ \E n \in 0..MaxAttempts : CallFireAndForget(t, n)
    \/ \E v \in PowerArgs, rapid \in BOOLEAN : CallSetPower(t, v, rapid)
    \/ CallRefreshPower(t)
    \/ ReqStep(t)
    \/ FFStep(t)
    \/ SetPowerWrite(t)
    \/ RefreshPowerStore(t)

\* one caller, one operation at a time
Next == Step(1)

Spec == Init /\ [][Next]_vars

\* Two threads on one Device, as the workers of refresh() are: both make
\* request/response calls, thread 1 fire-and-forget calls as well.
InitConc == Init /\ broadcast_addrs = {"bc1", "bc2"}

NextConc ==
    \/ CallReqWithResp(1, WorkerAttempts)
    \/ \E n \in 0..WorkerAttempts : CallFireAndForget(1, n)
    \/ ReqStep(1)
    \/ FFStep(1)
    \/ CallReqWithResp(2, WorkerAttempts)
    \/ ReqStep(2)

SpecConc == InitConc /\ [][NextConc]_vars

(* ----------------------- transport exceptions ------------------------- *)

RaisedKeepsSocket(c) ==
    [c EXCEPT !.pc = "finished", !.outcome = "TransportError"]

\* an exception leaves the `with init_socket(...)` block: the block's exit
\* releases the socket and the exception goes on to the caller
Raised(c) ==
    [c EXCEPT !.pc = "finished", !.sock = "closed", !.outcome = "TransportError"]

\* sendto or recvfrom of a req_with_resp raises an error other than the
\* receive timeout
ReqTransportError(t) ==
    LET c == calls[t] IN
    /\ c.pc \in {"send", "bcast", "recv"}
    /\ calls' = [calls EXCEPT ![t] = Raised(c)]
    /\ UNCHANGED <<ip_addr, power_level, matched_addrs, last_match_addr>>
    /\ Untouched

\* sendto of a fire_and_forget raises
FFTransportError(t) ==
    LET c == calls[t] IN
    /\ c.pc \in {"ff_send", "ff_bcast"}
    /\ calls' = [calls EXCEPT ![t] = Raised(c)]
    /\ UNCHANGED <<ip_addr, power_level, matched_addrs, last_match_addr>>
    /\ Untouched

\* Two threads on one Device, on a network whose sends and receives may fail:
\* thread 1 makes fire-and-forget calls, thread 2 request/response calls.
NextSock ==
    \/ \E n \in 0..WorkerAttempts : CallFireAndForget(1, n)
    \/ FFStep(1)
    \/ Finish(1)
    \/ FFTransportError(1)
    \/ CallReqWithResp(2, WorkerAttempts)
    \/ ReqStep(2)
    \/ ReqTransportError(2)

SpecSock == InitConc /\ [][NextSock]_vars

\* a receive of thread t in which time passes
ReqRecvAdvance(t) ==
    /\ \/ \E d \in Datagrams, from \in IpAddrs, e \in Ticks : ReqRecvDatagram(t, d, from, e)
       \/ \E e \in Ticks : ReqRecvTimeout(t, e)
    /\ calls'[t].pc = "recv" => calls'[t].elapsed > calls[t].elapsed

\* One caller of req_with_resp and of refresh_power, when a send completes and
\* time advances: of the receives of an attempt only finitely many take no time.
Live ==
    /\ WF_vars(ReqSend(1))
    /\ WF_vars(ReqBroadcast(1))
    /\ WF_vars(ReqRecvAdvance(1))

NextLive ==
    \/ \E n \in 0..MaxAttempts : CallReqWithResp(1, n)
    \/ CallRefreshPower(1)
    \/ ReqStep(1)
    \/ RefreshPowerStore(1)

SpecLive == Init /\ [][NextLive]_vars /\ Live

\* A generic Device whose caller sets a label, reads feature flags and
\* is_light, and makes one refresh().
InitRefresh ==
    /\ kind = "Device"
    /\ init_ip = "ip1"
    /\ ip_addr = init_ip
    /\ power_level = NonePower
    /\ broadcast_addrs = {"bc1"}
    /\ calls = [t \in Threads |-> IdleCall]
    /\ matched_addrs = {}
    /\ last_match_addr = NoIp
    /\ cache = InitCache
    /\ futures = <<>>
    /\ refresh = IdleRefresh
    /\ version_log = NoVersionRun
    /\ devices = NoDevices

\* the steps of the workers of the pool
PoolStep ==
    \E i \in 1..Len(futures) :
        \/ TaskStart(i)
        \/ \E r \in ResponsesOf(futures[i].func), from \in Responders : TaskResponse(i, r, from)
        \/ TaskNoResponse(i)
        \/ TaskStore(i)
        \/ \E from \in Responders : TaskSetColor(i, from)
        \/ \E from \in Responders : TaskSetPower(i, from)

\* the steps of the workers of a generic Device's pool: with seven functions
\* and twelve workers no function waits, and no function writes twice
DevicePoolStep ==
    \E i \in 1..Len(futures) :
        \/ \E r \in ResponsesOf(futures[i].func), from \in Responders : TaskResponse(i, r, from)
        \/ TaskNoResponse(i)

\* the steps of one refresh()
RefreshStep ==
    \/ CallRefresh
    \/ RefreshSubmit
    \/ PoolStep
    \/ RefreshJoin
    \/ RefreshReturn

NextRefresh ==
    \/ CallRefresh
    \/ RefreshSubmit
    \/ DevicePoolStep
    \/ RefreshJoin
    \/ RefreshReturn
    \/ \E by \in ProductReaders, answered \in BOOLEAN, from \in Responders :
           ReadProductInfo(by, answered, from)
    \/ \E label \in LabelArgs, acked \in BOOLEAN, from \in Responders :
           SetLabel(label, acked, from)

SpecRefresh == InitRefresh /\ [][NextRefresh]_vars

\* A generic Device or a Light, with its own pool, whose caller makes one
\* refresh() and, on a Light, calls set_color_power.
InitPool ==
    /\ kind \in {"Device", "Light"}
    /\ init_ip = "ip1"
    /\ ip_addr = init_ip
    /\ power_level = NonePower
    /\ broadcast_addrs = {"bc1"}
    /\ calls = [t \in Threads |-> IdleCall]
    /\ matched_addrs = {}
    /\ last_match_addr = NoIp
    /\ cache = InitCache
    /\ futures = <<>>
    /\ refresh = IdleRefresh
    /\ version_log = NoVersionRun
    /\ devices = NoDevices

NextPool ==
    \/ RefreshStep
    \/ \E cp \in ColorPowers : CallSetColorPower(cp)
    \/ SetColorPowerReturn

SpecPool == InitPool /\ [][NextPool]_vars

\* Two Devices constructed with any two mac address strings; the first is the
\* Device of the other variables, and its caller reads its product
\* information and sets its label.
InitMac ==
    /\ \E m1 \in MacArgs, m2 \in MacArgs : devices = <<NewDevice(m1), NewDevice(m2)>>
    /\ kind = "Device"
    /\ init_ip = "ip1"
    /\ ip_addr = init_ip
    /\ power_level = NonePower
    /\ broadcast_addrs = {"bc1"}
    /\ calls = [t \in Threads |-> IdleCall]
    /\ matched_addrs = {}
    /\ last_match_addr = NoIp
    /\ cache = InitCache
    /\ futures = <<>>
    /\ refresh = IdleRefresh
    /\ version_log = NoVersionRun

NextMac ==
    \/ \E by \in ProductReaders, answered \in BOOLEAN, from \in Responders :
           ReadProductInfo(by, answered, from)
    \/ \E label \in LabelArgs, acked \in BOOLEAN, from \in Responders :
           SetLabel(label, acked, from)

SpecMac == InitMac /\ [][NextMac]_vars

(* ------------------------- the message flags -------------------------- *)

\* the lists of expected response types a caller may pass; a single type
\* stands as the one-element list `response_type = [response_type]` makes of it
TypeLists == UNION {[1..n -> RespTypes] : n \in 0..MaxTypes}

\* a caller's own req_with_resp(GetPower, types)
CallReqWithRespTypes(t, types) ==
    /\ calls[t].pc = "idle"
    /\ calls' = [calls EXCEPT ![t] =
                    ReqStart(NewCall("req_with_resp"), "GetPower", types, "none",
                             WorkerAttempts)]
    /\ UNCHANGED <<ip_addr, power_level, matched_addrs, last_match_addr>>
    /\ Untouched

\* req_with_ack: `self.req_with_resp(msg_type, Acknowledgement, payload, ...)`
CallReqWithAck(t) ==
    /\ calls[t].pc = "idle"
    /\ calls' = [calls EXCEPT ![t] =
                    ReqStart(NewCall("req_with_ack"), "SetLabel", <<"Acknowledgement">>,
                             "none", WorkerAttempts)]
    /\ UNCHANGED <<ip_addr, power_level, matched_addrs, last_match_addr>>
    /\ Untouched

\* One caller of req_with_resp with any list of expected types, of
\* req_with_ack and of fire_and_forget.
NextMsg ==
    \/ \E types \in TypeLists : CallReqWithRespTypes(1, types)
    \/ CallReqWithAck(1)
    \/ \E n \in 0..WorkerAttempts : CallFireAndForget(1, n)
    \/ ReqStep(1)
    \/ FFStep(1)

SpecMsg == Init /\ [][NextMsg]_vars

(* ------------------------- power-set messages ------------------------ *)

\* what a caller may hand to fire_and_forget: a message type and its payload
DirectSends ==
    {[type |-> "SetLabel", power |-> "none"],
     [type |-> "SetPower", power |-> "65535"],
     [type |-> "LightSetPower", power |-> "65535"]}

\* a caller's own fire_and_forget(msg_type, payload, num_repeats=n)
CallFireAndForgetOf(t, m, n) ==
    /\ calls[t].pc = "idle"
    /\ calls' = [calls EXCEPT ![t] =
                    FFStart(NewCall("fire_and_forget"), m.type, m.power, n)]
    /\ UNCHANGED <<ip_addr, power_level, matched_addrs, last_match_addr>>
    /\ Untouched

\* A Device or a Light whose one caller sets and refreshes its power and
\* calls fire_and_forget with messages of its own choice.
InitPower ==
    /\ kind \in {"Device", "Light"}
    /\ init_ip \in {NoIp, "ip1"}
    /\ ip_addr = init_ip
    /\ power_level = NonePower
    /\ broadcast_addrs = {"bc1"}
    /\ calls = [t \in Threads |-> IdleCall]
    /\ matched_addrs = {}
    /\ last_match_addr = NoIp
    /\ cache = InitCache
    /\ futures = <<>>
    /\ refresh = IdleRefresh
    /\ version_log = NoVersionRun
    /\ devices = NoDevices

NextPower ==
    \/ \E v \in PowerArgs, rapid \in BOOLEAN : CallSetPower(1, v, rapid)
    \/ SetPowerWrite(1)
    \/ CallRefreshPower(1)
    \/ RefreshPowerStore(1)
    \/ \E m \in DirectSends, n \in 0..WorkerAttempts : CallFireAndForgetOf(1, m, n)
    \/ ReqStep(1)
    \/ FFStep(1)

SpecPower == InitPower /\ [][NextPower]_vars

(* -------------------------- _send_set_message ------------------------- *)

\* _send_set_message(SetLabel, payload, max_attempts=n, rapid=rapid)
CallSendSetMessage(t, n, rapid) ==
    /\ calls[t].pc = "idle"
    /\ calls' = [calls EXCEPT ![t] =
                    SendSetMessage([NewCall("_send_set_message")
                                        EXCEPT !.passed = n, !.rapid = rapid],
                                   "SetLabel", "none", n, rapid)]
    /\ UNCHANGED <<ip_addr, power_level, matched_addrs, last_match_addr>>
    /\ Untouched

\* One caller of _send_set_message with any max_attempts, rapid or not.
NextSet ==
    \/ \E n \in 0..MaxAttempts, rapid \in BOOLEAN : CallSendSetMessage(1, n, rapid)
    \/ ReqStep(1)
    \/ FFStep(1)

SpecSet == Init /\ [][NextSet]_vars

(* ----------------------- set_power after a failure -------------------- *)

\* history: what the operation of frame c was and how it ended
Summary(c) == [op |-> c.op, outcome |-> c.outcome, power |-> c.power, rapid |-> c.rapid]

\* set_power(power, rapid) called as soon as the operation before it has
\* returned or raised: CallSetPower, with that operation remembered
CallSetPowerNext(t, power_arg, rapid) ==
    LET guard == SetPowerGuard(power_arg, power_level)
        c == [NewCall("set_power") EXCEPT !.arg = power_arg, !.rapid = rapid,
                                          !.old_power = power_level,
                                          !.prev = Summary(calls[t])]
    IN
    /\ calls[t].pc = "finished"
    /\ calls' = [calls EXCEPT ![t] =
           CASE guard = "ValueError" -> [c EXCEPT !.pc = "finished", !.outcome = "ValueError"]
             [] guard = "skip" -> [c EXCEPT !.pc = "finished", !.outcome = "returned"]
             [] OTHER -> [c EXCEPT !.pc = "set_write", !.power = Validate(power_arg)]]
    /\ UNCHANGED <<ip_addr, power_level, matched_addrs, last_match_addr>>
    /\ Untouched

\* One caller that sets the power, again and again, and refreshes it; the
\* power can be set only after a refresh has matched, so ip_addr is set
\* whenever a set message is sent.
NextRetry ==
    \/ \E v \in PowerArgs, rapid \in BOOLEAN : CallSetPower(1, v, rapid)
    \/ \E v \in PowerArgs, rapid \in BOOLEAN : CallSetPowerNext(1, v, rapid)
    \/ SetPowerWrite(1)
    \/ CallRefreshPower(1)
    \/ RefreshPowerStore(1)
    \/ ReqStep(1)
    \/ FFSend(1)
    \/ FFArrive(1)

SpecRetry == Init /\ [][NextRetry]_vars

(* ------------------------------ claims -------------------------------- *)

\* the frames that run req_with_resp, fire_and_forget, and those that ended
IsReq(c) == c.kind = "req"
IsFF(c) == c.kind = "ff"
Ended(c) == c.outcome # "none"

\* C1: a req_with_resp call that receives no datagram satisfying the match
\* predicate makes one send step per attempt, never more than max_attempts,
\* and ends with NoResponse after exactly max_attempts send steps, without a
\* response.
C1_NoMatchSendsMaxAttempts ==
    \A t \in Threads :
        LET c == calls[t] IN
        (IsReq(c) /\ ~c.got_match) =>
            /\ c.sends <= c.max_attempts
            /\ ~Ended(c) => c.sends = c.attempts + (IF c.sent THEN 1 ELSE 0)
            /\ Ended(c) => /\ c.outcome = "NoResponse"
                           /\ c.sends = c.max_attempts
                           /\ c.device_response = NoDatagram

C1_Witness ==
    LET c == calls[1] IN
    /\ c.op = "req_with_resp" /\ c.max_attempts = 2 /\ ~c.got_match
    /\ c.outcome = "NoResponse" /\ c.sends = 2

\* C2: once a datagram satisfying the match predicate has been received, the
\* call has returned that datagram and has made no send step after the one of
\* the attempt the datagram arrived in; a match in the first attempt leaves
\* the call with one send step.
C2_MatchEndsTheCall ==
    \A t \in Threads :
        LET c == calls[t] IN
        (IsReq(c) /\ c.got_match) =>
            /\ c.outcome = "returned"
            /\ c.device_response = c.match_dgram
            /\ c.sends = c.sends_at_match
            /\ c.sends <= c.max_attempts

C2_Witness ==
    LET c == calls[1] IN
    /\ c.op = "req_with_resp" /\ c.max_attempts = 2 /\ c.got_match
    /\ c.sends_at_match = 1 /\ c.sends = 1 /\ c.outcome = "returned"

\* what a call holds, against the match predicate (part of C3)
C3_ResponseSatisfiesPredicate ==
    \A t \in Threads :
        LET c == calls[t] IN
        IsReq(c) =>
            /\ c.got_match <=> (c.device_response # NoDatagram)
            /\ c.outcome = "returned" <=> c.got_match
            /\ c.device_response # NoDatagram =>
                   /\ c.device_response.type \in c.response_type
                   /\ c.device_response.source_id = SourceId
                   /\ c.device_response.target_addr \in {MacAddr, BROADCAST_MAC}

\* a receive step that delivers no match (part of C3)
C3_RejectedKeepsIp ==
    \A t \in Threads :
        (calls[t].pc = "recv" /\ calls'[t] # calls[t] /\ ~calls'[t].got_match)
            => ip_addr' = ip_addr

\* C3: a datagram is accepted exactly when its type is expected, its
\* source_id is the Device's and its target address is the Device's mac or the
\* broadcast sentinel: a call holds a response exactly when it has received
\* such a datagram, every response held or returned is such a datagram, and a
\* receive step that delivers no such datagram leaves ip_addr as it was.
C3_MatchPredicate == []C3_ResponseSatisfiesPredicate /\ [][C3_RejectedKeepsIp]_vars

C3_Witness ==
    LET c == calls[1] IN
    /\ IsReq(c) /\ c.outcome = "returned" /\ c.ignored_sid
    /\ c.device_response.target_addr = BROADCAST_MAC
    /\ ip_addr = "ip2"

\* C4: a call that has received a datagram of an expected type and a right
\* target address but another source_id, and no matching datagram, holds no
\* response, and when it ends it ends with NoResponse.
C4_WrongSourceIdIgnored ==
    \A t \in Threads :
        LET c == calls[t] IN
        (IsReq(c) /\ c.ignored_sid /\ ~c.got_match) =>
            /\ c.device_response = NoDatagram
            /\ c.outcome \in {"none", "NoResponse"}
            /\ c.pc \in {"send", "bcast", "recv", "finished"}

C4_Witness ==
    LET c == calls[1] IN
    /\ IsReq(c) /\ c.ignored_sid /\ ~c.got_match /\ c.outcome = "NoResponse"
    /\ c.max_attempts = 2

\* a step in which thread t sends
Emits(t) == calls'[t].sends = calls[t].sends + 1

\* C5 as stated: a send step made while ip_addr is unset goes to every
\* broadcast address, and once a call has matched, ip_addr is a responder's
\* address and every send step goes to ip_addr alone.
C5_Original ==
    /\ [](matched_addrs # {} => ip_addr \in matched_addrs)
    /\ [][\A t \in Threads :
              Emits(t) =>
                  /\ ip_addr = NoIp => calls'[t].dests = broadcast_addrs
                  /\ matched_addrs # {} => calls'[t].dests = {ip_addr}]_vars

\* where the send steps go (part of amended C5)
C5_SendStepTargets ==
    \A t \in Threads :
        /\ Emits(t) =>
              IF calls[t].pc \in {"bcast", "ff_bcast"}
              THEN calls'[t].dests = broadcast_addrs
              ELSE ip_addr # NoIp /\ calls'[t].dests = {ip_addr}
        /\ (calls'[t].pc \in {"bcast", "ff_bcast"} /\ calls[t].pc \notin {"bcast", "ff_bcast"})
              => ip_addr = NoIp
        /\ (/\ calls[t].pc \in {"send", "ff_send"}
            /\ calls'[t] # calls[t]
            /\ calls'[t].inbox = calls[t].inbox
            /\ ip_addr # NoIp)
              => Emits(t) /\ calls'[t].dests = {ip_addr}

\* C5 as amended: a send step goes to every broadcast address when it read
\* ip_addr as unset, which it does only while ip_addr is unset, and to ip_addr
\* alone otherwise; once a call has matched, ip_addr is the address of the
\* latest matched responder, so every send step that reads ip_addr from then
\* on goes to that address alone.
C5_UnicastAfterMatch ==
    /\ [](matched_addrs # {} => ip_addr = last_match_addr /\ ip_addr \in IpAddrs)
    /\ [][C5_SendStepTargets]_vars

C5_Witness ==
    /\ init_ip = NoIp
    /\ matched_addrs # {}
    /\ calls[1].kind = "ff" /\ calls[1].sends = 1 /\ calls[1].dests = {ip_addr}
    /\ calls[2].outcome = "returned"

\* the values of ip_addr (part of C6)
C6_IpFromMatch ==
    ip_addr = init_ip \/ ip_addr \in matched_addrs

\* the steps that change ip_addr (part of C6)
C6_OnlyMatchWritesIp ==
    ip_addr' # ip_addr =>
        /\ ip_addr' = last_match_addr'
        /\ \E t \in Threads :
              /\ calls[t].pc = "recv"
              /\ ~calls[t].got_match
              /\ calls'[t].got_match
              /\ calls'[t].outcome = "returned"

\* C6: ip_addr is the value given at construction or the sender address of a
\* datagram that matched in a req_with_resp call, and the only step that
\* changes it is the receive step that delivers a call's first matching
\* datagram, which sets it to that datagram's sender.
C6_IpOnlyFromMatch == []C6_IpFromMatch /\ [][C6_OnlyMatchWritesIp]_vars

C6_Witness ==
    /\ init_ip = "ip1"
    /\ ip_addr = "ip2"
    /\ calls[1].kind = "ff" /\ calls[1].sends = 1 /\ calls[1].inbox
    /\ calls[2].pc = "recv" /\ calls[2].ignored_sid

\* C7 as stated: a fire_and_forget that has completed has issued exactly
\* num_repeats datagrams, whether ip_addr is known or unset.
C7_Original ==
    \A t \in Threads :
        LET c == calls[t] IN
        (IsFF(c) /\ Ended(c)) => c.dgrams = c.num_repeats

\* the datagrams of one send step, as the Device stands
PerSendStep == IF ip_addr # NoIp THEN 1 ELSE Cardinality(broadcast_addrs)

\* C7 as amended: fire_and_forget makes exactly num_repeats send steps, each
\* one datagram to ip_addr when it is set and one datagram to every broadcast
\* address when it is unset, and then completes normally, whatever arrives at
\* its socket; it holds no response and never ends with NoResponse.
C7_FireAndForgetSendSteps ==
    \A t \in Threads :
        LET c == calls[t] IN
        IsFF(c) =>
            /\ c.sends <= c.num_repeats
            /\ c.dgrams = c.sends * PerSendStep
            /\ ~Ended(c) => c.sends = c.sent_msg_count /\ c.sock = "open"
            /\ Ended(c) => /\ c.sends = c.num_repeats
                           /\ c.outcome = "returned"
                           /\ c.pc = "finished"
            /\ c.device_response = NoDatagram
            /\ c.pc \notin {"recv", "send", "bcast", "cont"}

C7_Witness ==
    LET c == calls[1] IN
    /\ c.op = "fire_and_forget" /\ c.num_repeats = 2 /\ c.inbox
    /\ c.outcome = "returned" /\ c.sends = 2 /\ c.dgrams = 4
    /\ ip_addr = NoIp

\* the power setter was called with a valid value
ValidSetPower(c) ==
    /\ c.op = "set_power"
    /\ Validate(c.arg) # Invalid
    /\ Validate(c.old_power) # Invalid

\* the frame of a skipped set_power (part of C8)
C8_SkippedFrame ==
    \A t \in Threads :
        LET c == calls[t] IN
        (ValidSetPower(c) /\ Validate(c.arg) = Validate(c.old_power)) =>
            /\ c.pc = "finished"
            /\ c.outcome = "returned"
            /\ c.sock = "none"
            /\ c.sends = 0 /\ c.dgrams = 0
            /\ power_level = c.old_power

\* the step of a skipped set_power (part of C8)
C8_SkipChangesNothing ==
    \A t \in Threads :
        (/\ calls[t].pc = "idle"
         /\ calls'[t].op = "set_power"
         /\ Validate(calls'[t].arg) # Invalid
         /\ Validate(calls'[t].arg) = Validate(power_level)) =>
            UNCHANGED <<ip_addr, power_level, init_ip, broadcast_addrs>>

\* C8: a set_power whose value has the canonical form of the cached
\* power_level returns at once: it opens no socket, sends nothing, and leaves
\* power_level and ip_addr as they were, rapid or not.
C8_SamePowerSendsNothing == []C8_SkippedFrame /\ [][C8_SkipChangesNothing]_vars

C8_Witness ==
    LET c == calls[1] IN
    /\ c.op = "set_power" /\ c.arg = "True" /\ c.old_power = "1" /\ ~c.rapid
    /\ c.outcome = "returned" /\ power_level = "1"

\* C9: a set_power whose value has another canonical form than the cached
\* power_level writes the new canonical value to power_level before it opens
\* a socket or sends, the message carries that value, and when the non-rapid
\* send ends with NoResponse power_level still holds it.
C9_WriteThrough ==
    \A t \in Threads :
        LET c == calls[t] IN
        (ValidSetPower(c) /\ Validate(c.arg) # Validate(c.old_power)) =>
            /\ c.pc = "set_write" => c.sock = "none" /\ c.sends = 0
            /\ c.pc # "set_write" =>
                   /\ power_level = Validate(c.arg)
                   /\ c.msg.power_level = Validate(c.arg)
            /\ c.sends > 0 => c.power_at_send = Validate(c.arg)
            /\ c.outcome \in {"none", "returned", "NoResponse"}
            /\ c.outcome = "NoResponse" => ~c.rapid /\ c.sends = DEFAULT_ATTEMPTS

C9_Witness ==
    LET c == calls[1] IN
    /\ c.op = "set_power" /\ c.arg = "True" /\ c.old_power = "0" /\ ~c.rapid
    /\ c.outcome = "NoResponse" /\ power_level = "65535"

\* C10: a set_power with an invalid value ends in a validation error with no
\* socket opened and nothing sent, and leaves power_level as it was.
C10_InvalidPowerRejected ==
    \A t \in Threads :
        LET c == calls[t] IN
        (c.op = "set_power" /\ Validate(c.arg) = Invalid) =>
            /\ c.pc = "finished"
            /\ c.outcome = "ValueError"
            /\ c.sock = "none"
            /\ c.sends = 0 /\ c.dgrams = 0
            /\ power_level = c.old_power

C10_Witness ==
    LET c == calls[1] IN
    /\ c.op = "set_power" /\ c.arg = "bogus" /\ c.old_power = "0"
    /\ c.outcome = "ValueError" /\ power_level = "0"

\* the future of a refresh function, its response, how it ended
FutureOf(func) == futures[CHOOSE i \in DOMAIN futures : futures[i].func = func]
Submitted(func) == \E i \in DOMAIN futures : futures[i].func = func
Succeeded(func) == Submitted(func) /\ FutureOf(func).state = "done"
NoResponseIn(func) == Submitted(func) /\ FutureOf(func).state = "failed"

\* the functions of a generic Device's refresh()
DeviceFuncs == {RefreshFuncs("Device")[i] : i \in DOMAIN RefreshFuncs("Device")}

\* the cached attribute a function of DeviceFuncs refreshes, out of the cache
\* c and the power level p
FieldOf(func, c, p) ==
    CASE func = "_refresh_label" -> c.label
      [] func = "_refresh_location" -> c.location
      [] func = "_refresh_group" -> c.group
      [] func = "_refresh_power" -> p
      [] func = "_refresh_host_firmware_info" -> c.host_firmware_info
      [] func = "_refresh_wifi_firmware_info" -> c.wifi_firmware_info
      [] func = "_refresh_version_info" -> c.product_info

\* the version a firmware response carries: major.minor, two 16-bit words
CarriedVersion(version) == (version \div 65536) * 100000 + Fraction(version % 65536)

\* the value response r carries for the attribute of func
Carried(func, r) ==
    CASE func \in {"_refresh_label", "_refresh_location", "_refresh_group"} -> r.label
      [] func = "_refresh_power" -> r.power_level
      [] func \in {"_refresh_host_firmware_info", "_refresh_wifi_firmware_info"} ->
             [build_timestamp |-> r.build, version |-> CarriedVersion(r.version)]
      [] func = "_refresh_version_info" ->
             [vendor |-> r.vendor, product |-> r.product, version |-> r.product_version]

\* refresh() has left its with block: every function was submitted and ended
Joined == refresh.pc \in {"results", "returned"}

\* C11 as stated: when every refresh function of a generic Device's refresh()
\* got a matching response, refresh() returns True and, when the functions
\* have ended, every cached attribute equals the value its response carries,
\* in whatever order the functions ended.
C11_Original ==
    (kind = "Device" /\ Joined /\ \A func \in DeviceFuncs : Succeeded(func)) =>
        /\ refresh.pc = "returned" => refresh.result = "True"
        /\ refresh.pc = "results" =>
               \A func \in DeviceFuncs :
                   FieldOf(func, cache, power_level) = Carried(func, FutureOf(func).response)

\* what a function stores from response r: a text, the power level and the
\* product information as carried, a firmware information with the build as
\* carried and the version as the function reads it
StoredFrom(func, r) ==
    IF func \in {"_refresh_host_firmware_info", "_refresh_wifi_firmware_info"}
    THEN [build_timestamp |-> r.build, version |-> FirmwareVersion(r.version)]
    ELSE Carried(func, r)

C13_EachSubmittedOnce ==
    refresh.op = "refresh" =>
        /\ Len(futures) <= Len(RefreshFuncs(kind))
        /\ \A i \in DOMAIN futures : futures[i].func = RefreshFuncs(kind)[i]
        /\ refresh.pc \in {"wait", "results", "returned"} =>
               Len(futures) = Len(RefreshFuncs(kind))

\* refresh() is past its with block only when all functions have ended (part of C13)
C13_JoinedAfterAllEnded ==
    Joined => \A i \in DOMAIN futures : Finished(futures[i])

\* once refresh() has returned its functions do nothing more (part of C13)
C13_QuietAfterReturn ==
    (refresh.pc = "returned" /\ refresh'.pc = "returned") =>
        UNCHANGED <<futures, cache, power_level, ip_addr>>

\* C13: refresh() submits every function of the fixed set exactly once; it
\* leaves its with block, and so returns, only when every submitted function
\* has ended, also when one has ended in NoResponse before; after the return
\* no function of the call runs or writes a cached attribute, whatever the
\* caller does next.
C13_WaitsForAll ==
    /\ []C13_EachSubmittedOnce
    /\ []C13_JoinedAfterAllEnded
    /\ [][C13_QuietAfterReturn]_vars

C13_Witness ==
    /\ kind = "Light" /\ refresh.op = "refresh"
    /\ refresh.pc = "returned" /\ refresh.result = "False" /\ refresh.reordered
    /\ Len(futures) = 8
    /\ futures[1].state = "failed" /\ futures[8].state = "done"
    /\ cache.color = "hsbk"

\* C14: the functions of one Device that its pool executes at a time are at
\* most 12 on a generic Device and at most 2 on a Light, in refresh() and in
\* set_color_power alike; on a generic Device no submitted function waits.
C14_PoolBound ==
    /\ Cardinality(Executing(futures)) <= (IF kind = "Light" THEN 2 ELSE 12)
    /\ \A i \in DOMAIN futures : futures[i].state = "queued" => kind = "Light"

C14_Witness ==
    /\ kind = "Light" /\ refresh.op = "refresh" /\ refresh.pc = "wait"
    /\ Cardinality(Executing(futures)) = 2
    /\ futures[7].state = "running" /\ futures[8].state = "queued"
    /\ futures[6].state = "running"

\* the state of a req_with_resp call in the machine of 4.6; a call is in
\* Sent between its send and its first receive, which is no step of its own
ReqState(c) ==
    CASE ~IsReq(c) -> "NoCall"
      [] IsReq(c) /\ c.outcome = "returned" -> "Matched"
      [] IsReq(c) /\ c.outcome = "NoResponse" -> "Exhausted"
      [] IsReq(c) /\ ~Ended(c) /\ c.pc = "recv" -> "AwaitingMatch"
      [] IsReq(c) /\ ~Ended(c) /\ c.pc # "recv" /\ c.attempts = 0 -> "Unsent"
      [] OTHER -> "AttemptTimedOut"

\* the moves of the machine as stated: a call starts Unsent, sends and awaits,
\* and from there matches, goes on polling, or times out to send again or to
\* be exhausted
StatedMoves ==
    {<<"NoCall", "Unsent">>, <<"Unsent", "AwaitingMatch">>,
     <<"AwaitingMatch", "AwaitingMatch">>, <<"AwaitingMatch", "Matched">>,
     <<"AwaitingMatch", "AttemptTimedOut">>, <<"AwaitingMatch", "Exhausted">>,
     <<"AttemptTimedOut", "AwaitingMatch">>,
     <<"Unsent", "Unsent">>, <<"AttemptTimedOut", "AttemptTimedOut">>,
     <<"Matched", "Matched">>, <<"Matched", "NoCall">>, <<"Exhausted", "NoCall">>,
     <<"NoCall", "NoCall">>}

\* a step of thread t is a move of the set moves, and a timed out attempt is
\* followed by another only while attempts remain
FollowsMachine(t, moves) ==
    /\ <<ReqState(calls[t]), ReqState(calls'[t])>> \in moves
    /\ ReqState(calls'[t]) = "AttemptTimedOut" =>
           calls'[t].attempts < calls'[t].max_attempts
    /\ (ReqState(calls[t]) = "AwaitingMatch" /\ ReqState(calls'[t]) = "Exhausted") =>
           calls[t].attempts + 1 >= calls[t].max_attempts

\* one send step per attempt started, and one terminal state per call
OneSendPerAttempt ==
    \A t \in Threads :
        LET c == calls[t] IN
        IsReq(c) =>
            /\ ~Ended(c) => c.sends = c.attempts + (IF c.sent THEN 1 ELSE 0)
            /\ c.sends <= c.max_attempts
            /\ Ended(c) => c.outcome \in {"returned", "NoResponse"}
            /\ c.outcome = "returned" <=> c.device_response # NoDatagram

\* a call that runs ends
EveryCallEnds ==
    \A t \in {1} : (IsReq(calls[t]) /\ ~Ended(calls[t])) ~> Ended(calls[t])

\* C15 as stated: every req_with_resp call follows Unsent -> Sent ->
\* AwaitingMatch -> Matched or AttemptTimedOut, AttemptTimedOut -> Sent while
\* attempts remain and -> Exhausted otherwise; when time advances every call
\* reaches one terminal state; send steps equal attempts started.
C15_Original ==
    /\ [][\A t \in Threads : FollowsMachine(t, StatedMoves)]_vars
    /\ []OneSendPerAttempt
    /\ EveryCallEnds

\* C15 as amended: as stated, but a call with max_attempts = 0 goes from
\* Unsent to Exhausted at once, with no send step.
C15_StateMachine ==
    /\ [][\A t \in Threads :
              /\ FollowsMachine(t, StatedMoves \cup {<<"NoCall", "Exhausted">>})
              /\ <<ReqState(calls[t]), ReqState(calls'[t])>> = <<"NoCall", "Exhausted">>
                     => calls'[t].max_attempts = 0 /\ calls'[t].sends = 0]_vars
    /\ []OneSendPerAttempt
    /\ EveryCallEnds

C15_Witness ==
    LET c == calls[1] IN
    /\ c.op = "req_with_resp" /\ c.max_attempts = 2 /\ c.sends = 2
    /\ c.outcome = "returned" /\ c.ignored_sid

\* a receive after which the attempt goes on: it got no matching datagram
\* (part of C16)
C16_PollingKeepsDeadline ==
    \A t \in Threads :
        (calls[t].pc = "recv" /\ calls'[t].pc = "recv") =>
            /\ calls'[t].elapsed >= calls[t].elapsed
            /\ calls'[t].sends = calls[t].sends
            /\ calls'[t].attempts = calls[t].attempts
            /\ ~calls'[t].got_match

\* an attempt is alive only within its window, a call within max_attempts
\* windows (part of C16)
C16_AliveWithinWindows ==
    \A t \in Threads :
        calls[t].pc = "recv" =>
            /\ calls[t].elapsed <= TimeoutTicks
            /\ calls[t].attempts < calls[t].max_attempts
            /\ calls[t].sends = calls[t].attempts + 1

\* when time advances an attempt ends (part of C16)
C16_EveryAttemptEnds == []<>(calls[1].pc # "recv")

\* C16: the time of an attempt is counted from its start: a receive that
\* delivers a non-matching datagram leaves the attempt with a time no smaller
\* than before, makes no send and starts no attempt; an attempt goes on only
\* while its time is within the timeout, so when time advances every attempt
\* ends, whatever arrives, and a call has at most max_attempts attempts.
C16_DeadlineNotExtended ==
    /\ [][C16_PollingKeepsDeadline]_vars
    /\ []C16_AliveWithinWindows
    /\ C16_EveryAttemptEnds

C16_Witness ==
    LET c == calls[1] IN
    /\ c.op = "req_with_resp" /\ c.pc = "recv" /\ c.ignored_sid /\ ~c.got_match
    /\ c.attempts = 1 /\ c.sends = 2 /\ c.elapsed = TimeoutTicks

\* the calls that are inside their `with init_socket(...)` block
InBlock(c) == c.pc \in {"send", "bcast", "recv", "ff_send", "ff_bcast"}

\* C17: a call holds an open socket of its own exactly while it is inside its
\* `with` block: as many sockets are open as calls are running, and a call
\* that has ended, by a matched return, by NoResponse, by the end of
\* fire_and_forget's loop or by a transport exception, has released its
\* socket; when all calls have ended no socket is open.
C17_SocketReleased ==
    /\ \A t \in Threads :
           LET c == calls[t] IN
           /\ InBlock(c) <=> c.sock = "open"
           /\ c.pc = "finished" =>
                  /\ c.sock = "closed"
                  /\ c.outcome \in {"returned", "NoResponse", "TransportError"}
           /\ c.pc = "idle" => c.sock = "none"
    /\ Cardinality({t \in Threads : calls[t].sock = "open"})
           = Cardinality({t \in Threads : InBlock(calls[t])})
    /\ (\A t \in Threads : ~InBlock(calls[t])) =>
           \A t \in Threads : calls[t].sock # "open"

C17_Witness ==
    /\ calls[1].outcome = "TransportError" /\ calls[1].sock = "closed"
    /\ calls[2].outcome = "TransportError" /\ calls[2].sock = "closed"
    /\ calls[2].sends > 0

\* C18 as stated: once the product information is resolved no operation
\* sends another version-info request, whether a feature flag, is_light or
\* refresh().
C18_Original == version_log.sent => ~version_log.resolved

\* C18 as amended: once the product information is resolved, a feature-flag
\* access or is_light sends no version-info request; the
\* _refresh_version_info of refresh() sends one whenever it runs, resolved or
\* not.
C18_ResolvedOnceButForRefresh ==
    /\ (version_log.by \in ProductReaders /\ version_log.resolved) => ~version_log.sent
    /\ version_log.by = "refresh" => version_log.sent

C18_Witness ==
    /\ version_log = [by |-> "refresh", resolved |-> TRUE, sent |-> TRUE]
    /\ Succeeded("_refresh_version_info")
    /\ refresh.pc = "returned"

\* C19: a feature-flag access or is_light sends a version-info request
\* exactly when the cached product information is unresolved at the access;
\* an access that sends nothing reads a resolved cache.
C19_ReaderSendsIffUnresolved ==
    version_log.by \in ProductReaders =>
        /\ version_log.sent <=> ~version_log.resolved
        /\ ~version_log.sent => ~Unresolved(cache.product_info)
        /\ Unresolved(cache.product_info) => version_log.sent

C19_Witness ==
    /\ version_log = [by |-> "is_light", resolved |-> TRUE, sent |-> FALSE]
    /\ cache.product_info = ProductInfo("1", "27", "v0")

\* the letters that differ in case only
LetterPairs == {{"a", "A"}, {"f", "F"}}

\* two strings that differ at most in the case of their letters
DiffersOnlyInCase(x, y) ==
    /\ Len(x) = Len(y)
    /\ \A i \in 1..Len(x) : x[i] = y[i] \/ {x[i], y[i]} \in LetterPairs

C20_EqualWhenCaseDiffers ==
    \A i \in DOMAIN devices, j \in DOMAIN devices :
        /\ DiffersOnlyInCase(devices[i].given, devices[j].given) =>
               /\ DeviceEq(devices[i], devices[j])
               /\ DeviceHash(devices[i]) = DeviceHash(devices[j])
        /\ \A k \in DOMAIN devices[i].mac_addr : devices[i].mac_addr[k] \notin {"A", "F"}
        /\ DiffersOnlyInCase(devices[i].given, devices[i].mac_addr)

\* C20: two Devices constructed with mac address strings that differ only in
\* the case of their letters are equal and have equal hashes; the stored mac
\* address is the given one in lower case, and no operation changes it.
C20_MacCaseInsensitive ==
    /\ []C20_EqualWhenCaseDiffers
    /\ [][devices' = devices]_vars

C20_Witness ==
    /\ devices # NoDevices
    /\ devices[1].given # devices[2].given
    /\ devices[1].given # devices[1].mac_addr
    /\ DiffersOnlyInCase(devices[1].given, devices[2].given)
    /\ cache.label # NoneText
    /\ ~Unresolved(cache.product_info)

\* C21: a message built by req_with_resp has exactly one of the two flags
\* set, ack_requested exactly when the list of expected response types is
\* the one-element list of Acknowledgement; req_with_ack is req_with_resp
\* with that list; a message built by fire_and_forget has both flags unset.
C21_MessageFlags ==
    \A t \in Threads :
        LET c == calls[t] IN
        /\ IsReq(c) =>
               /\ c.msg.ack_requested # c.msg.response_requested
               /\ c.msg.ack_requested <=> c.types = <<"Acknowledgement">>
               /\ c.response_type = Members(c.types)
        /\ c.op = "req_with_ack" =>
               /\ IsReq(c)
               /\ c.types = <<"Acknowledgement">>
               /\ c.msg.ack_requested /\ ~c.msg.response_requested
        /\ IsFF(c) => ~c.msg.ack_requested /\ ~c.msg.response_requested

C21_Witness ==
    LET c == calls[1] IN
    /\ c.op = "req_with_resp" /\ c.sends > 0
    /\ Len(c.types) = 2 /\ "Acknowledgement" \in Members(c.types)
    /\ c.msg.response_requested
    /\ c.outcome = "returned" /\ c.device_response.type = "Acknowledgement"

\* C22: every message a call has sent, in every attempt, is the one message
\* built at its start, with sequence number 0, the Device's source_id and the
\* Device's mac address as target.
C22_OneMessagePerCall ==
    \A t \in Threads :
        LET c == calls[t] IN
        /\ c.msgs \subseteq {c.msg}
        /\ c.sends > 0 => c.msgs = {c.msg}
        /\ \A m \in c.msgs \cup (IF IsReq(c) \/ IsFF(c) THEN {c.msg} ELSE {}) :
               /\ m.seq_num = 0
               /\ m.source_id = SourceId
               /\ m.target = MacAddr

C22_Witness ==
    LET c == calls[1] IN
    /\ c.op = "set_power" /\ IsReq(c) /\ c.sends = DEFAULT_ATTEMPTS
    /\ c.msgs = {c.msg}
    /\ c.outcome = "NoResponse"

PowerSetTypes == {"SetPower", "LightSetPower"}

\* the frame c is a set_power past the guard of _set_power
PastGuard(c) ==
    /\ c.op = "set_power"
    /\ Validate(c.arg) # Invalid /\ Validate(c.old_power) # Invalid
    /\ Validate(c.arg) # Validate(c.old_power)
    /\ c.power = Validate(c.arg)

\* the power-set messages sent by operations of the set ops came from
\* _set_power after its guard, with the validated argument as payload
GuardedBut(ops) ==
    \A t \in Threads :
        LET c == calls[t] IN
        \A m \in c.msgs :
            (m.type \in PowerSetTypes /\ c.op \notin ops) =>
                /\ PastGuard(c)
                /\ m.type = SetPowerType(kind)
                /\ m.power_level = c.power

\* a change of power_level is the write of _set_power after its guard, or
\* the store of the power a matched response reports
PowerWrittenByGuardOrReport ==
    power_level' # power_level =>
        \E t \in Threads :
            LET c == calls[t] IN
            \/ c.pc = "set_write" /\ PastGuard(c) /\ power_level' = c.power
            \/ /\ c.pc = "cont" /\ c.op = "refresh_power"
               /\ power_level' = c.device_response.power_level

\* C23 as stated: every power-set message is sent by _set_power after the
\* guard, whatever operation the caller runs, and power_level is commanded
\* by nothing else.
C23_Original == [](GuardedBut({})) /\ [][PowerWrittenByGuardOrReport]_vars

\* C23 as amended: as stated for every operation but fire_and_forget,
\* req_with_ack and req_with_resp, which send a message of the type their
\* caller names.
C23_GuardedSetter ==
    /\ [](GuardedBut({"fire_and_forget", "req_with_ack", "req_with_resp"}))
    /\ [][PowerWrittenByGuardOrReport]_vars

C23_Witness ==
    LET c == calls[1] IN
    /\ kind = "Light" /\ c.op = "set_power" /\ c.sends > 0
    /\ \E m \in c.msgs : m.type = "LightSetPower" /\ m.power_level = "0"
    /\ power_level = "0" /\ c.old_power = "1"

\* C24: a rapid _send_set_message is a fire_and_forget of max_attempts send
\* steps that receives nothing; one that is not rapid is a req_with_resp
\* expecting Acknowledgement with DEFAULT_ATTEMPTS attempts, whatever
\* max_attempts it was passed, and ends in NoResponse when none matched.
C24_SendSetMessageDispatch ==
    \A t \in Threads :
        LET c == calls[t] IN
        c.op = "_send_set_message" =>
            /\ c.rapid =>
                   /\ IsFF(c) /\ c.num_repeats = c.passed
                   /\ c.sends <= c.passed
                   /\ c.pc # "recv" /\ c.device_response = NoDatagram
                   /\ Ended(c) => c.outcome = "returned" /\ c.sends = c.passed
            /\ ~c.rapid =>
                   /\ IsReq(c) /\ c.types = <<"Acknowledgement">>
                   /\ c.msg.ack_requested
                   /\ c.max_attempts = DEFAULT_ATTEMPTS
                   /\ c.sends <= DEFAULT_ATTEMPTS
                   /\ Ended(c) =>
                          \/ /\ c.outcome = "returned"
                             /\ c.device_response.type = "Acknowledgement"
                          \/ /\ c.outcome = "NoResponse"
                             /\ c.sends = DEFAULT_ATTEMPTS /\ ~c.got_match

C24_Witness ==
    LET c == calls[1] IN
    /\ c.op = "_send_set_message" /\ ~c.rapid /\ c.passed = 1
    /\ c.outcome = "NoResponse" /\ c.sends = DEFAULT_ATTEMPTS

\* a step of a running req_with_resp that has matched nothing by its end
\* writes no attribute of the Device (part of C25)
C25_UnmatchedStepWritesNothing ==
    \A t \in Threads :
        (IsReq(calls[t]) /\ ~Ended(calls[t]) /\ ~calls'[t].got_match) =>
            UNCHANGED <<ip_addr, power_level, cache>>

\* a req_with_resp that ended in NoResponse matched nothing in any of its
\* steps, and when ip_addr is set, sent every attempt to one address alone
\* (part of C25)
C25_NoResponseKeepsAddress ==
    \A t \in Threads :
        LET c == calls[t] IN
        (IsReq(c) /\ c.outcome = "NoResponse") =>
            /\ ~c.got_match
            /\ c.device_response = NoDatagram
            /\ IpKnown(ip_addr) => c.dgrams = c.sends

\* C25: a req_with_resp call that ends in NoResponse has written nothing:
\* ip_addr, power_level and the cached attributes are what they were when it
\* started; a set ip_addr is kept, and the sends went to it alone.
C25_NoResponseLeavesDevice ==
    /\ [][C25_UnmatchedStepWritesNothing]_vars
    /\ []C25_NoResponseKeepsAddress

C25_Witness ==
    LET c == calls[1] IN
    /\ c.op = "req_with_resp" /\ c.outcome = "NoResponse"
    /\ ip_addr = "ip2" /\ init_ip = NoIp
    /\ c.sends = MaxAttempts /\ c.dgrams = c.sends /\ c.ignored_sid
    /\ power_level = "1"

\* the operation before that of frame c was a set_power that was not rapid,
\* got past the guard with the value v and ended in NoResponse
AfterFailedSet(c, v) ==
    /\ c.prev.op = "set_power" /\ ~c.prev.rapid
    /\ c.prev.outcome = "NoResponse" /\ c.prev.power = v

\* a set_power that follows a failed one at once, with the same value, skips
\* (part of C26)
C26_SecondCallSkips ==
    \A t \in Threads :
        LET c == calls[t] IN
        /\ (c.op = "set_power" /\ ~c.rapid /\ c.outcome = "NoResponse") =>
               /\ power_level = c.power /\ c.power = Validate(c.arg)
               /\ Validate(c.old_power) # c.power
               /\ c.sends = DEFAULT_ATTEMPTS
        /\ (c.op = "set_power" /\ AfterFailedSet(c, Validate(c.arg))) =>
               /\ c.sends = 0 /\ c.dgrams = 0 /\ c.msgs = {}
               /\ c.pc = "finished" /\ c.outcome = "returned"
               /\ power_level = Validate(c.arg)
        /\ (c.op = "set_power" /\ c.sends > 0) => Validate(c.old_power) # Validate(c.arg)

\* C26: a set_power(v) that is not rapid, passes the guard and ends in
\* NoResponse leaves v in the cache, so a set_power(v) that follows at once
\* sends no datagram; a set_power sends only when the cache differs from
\* its value, and the cache changes only by the store of a reported power
\* or by _set_power writing another value.
C26_NoResendAfterFailure ==
    /\ []C26_SecondCallSkips
    /\ [][PowerWrittenByGuardOrReport]_vars

C26_Witness ==
    LET c == calls[1] IN
    /\ c.op = "set_power" /\ c.arg = "True" /\ AfterFailedSet(c, "65535")
    /\ c.outcome = "returned" /\ c.sends = 0 /\ power_level = "65535"

\* the functions of a Light's refresh()
LightFuncs == {RefreshFuncs("Light")[i] : i \in DOMAIN RefreshFuncs("Light")}

\* C27: when every function of a Light's refresh() got a matching response
\* and has ended, the cached label is the label of the StateLabel response
\* or that of the LightState response, the cached power_level is the power
\* of the StatePower response or that of the LightState response, and the
\* color is that of the LightState response.
C27_LastWriterWins ==
    (kind = "Light" /\ refresh.op = "refresh" /\ Joined
        /\ \A func \in LightFuncs : Succeeded(func)) =>
        /\ cache.label \in {FutureOf("_refresh_label").response.label,
                            FutureOf("get_color").response.label}
        /\ power_level \in {FutureOf("_refresh_power").response.power_level,
                            FutureOf("get_color").response.power_level}
        /\ cache.color = FutureOf("get_color").response.color
        /\ refresh.pc = "returned" => refresh.result = "True"

C27_Witness ==
    /\ kind = "Light" /\ refresh.op = "refresh" /\ refresh.pc = "returned"
    /\ \A func \in LightFuncs : Succeeded(func)
    /\ cache.label = FutureOf("_refresh_label").response.label
    /\ cache.label # FutureOf("get_color").response.label
    /\ power_level = FutureOf("get_color").response.power_level
    /\ power_level # FutureOf("_refresh_power").response.power_level

\* the futures of function func
FuturesOf(func) == {i \in DOMAIN futures : futures[i].func = func}

\* C28: set_color_power(cp) submits set_power once, and set_color once,
\* before it, exactly when cp.power and cp.color are both truthy; it submits
\* nothing else, at most two of its functions run at a time, and it returns
\* only when every function it submitted has ended.
C28_SetColorPowerSubmits ==
    refresh.op = "set_color_power" =>
        LET both == refresh.cp.power = "True" /\ refresh.cp.color = "hsbk" IN
        /\ kind = "Light"
        /\ \A i \in DOMAIN futures : futures[i].func \in {"set_color", "set_power"}
        /\ Cardinality(FuturesOf("set_power")) <= 1
        /\ Cardinality(FuturesOf("set_color")) <= (IF both THEN 1 ELSE 0)
        /\ FuturesOf("set_power") # {} => (both <=> FuturesOf("set_color") = {1})
        /\ refresh.pc \in {"wait", "results", "returned"} =>
               /\ Cardinality(FuturesOf("set_power")) = 1
               /\ Cardinality(FuturesOf("set_color")) = (IF both THEN 1 ELSE 0)
        /\ refresh.pc \in {"results", "returned"} =>
               \A i \in DOMAIN futures : Finished(futures[i])
        /\ \A i \in DOMAIN futures : futures[i].state # "queued"

C28_Witness ==
    /\ refresh.op = "set_color_power" /\ refresh.pc = "wait"
    /\ Len(futures) = 2
    /\ futures[1].func = "set_color" /\ futures[1].state = "running"
    /\ futures[2].func = "set_power" /\ futures[2].state = "running"

====
